---- MODULE Spec2Model ----
(***************************************************************************)
(* Model of the Glue job Capstone-Amazon-Review-Flatten-Job.py: the        *)
(* collision-safe naming helper, the struct-inlining / array-explosion     *)
(* loop of flatten_df with its final sanitize pass, the duplicate-key      *)
(* tolerant line parser, read_json, write_df, process_one and main.        *)
(*                                                                         *)
(* Column names are sequences of one-character strings, so that            *)
(* str.replace(".", "_"), f"{base}_{i}" and the dotted-path reading that   *)
(* pyspark's col() gives a name are computed, not assumed.                 *)
(*                                                                         *)
(* Specifications: Spec (flatten_df), SpecParse (parse_json_line_safe),    *)
(* SpecUnique (unique_name), SpecRead (process_one on one file),           *)
(* SpecWrite (write_df), SpecMain (main over both datasets).               *)
(***************************************************************************)
EXTENDS Integers, Sequences, FiniteSets, TLC

VARIABLES
    \* ---- flatten_df (lines 201-226)
    df0,        \* the frame flatten_df was called with
    max_iters,  \* its max_iters argument
    cur,        \* local `cur`
    it,         \* local `it`
    pc,         \* "loop" | "returned" | "raised" (idle: "off")
    warned,     \* the max-iterations warning of line 224 was logged
    prev,       \* frame before the last rewrite (history)
    lastop,     \* "none" | "struct" | "explode" | "sanitize" (history)
    rewrites,   \* number of rewrites performed so far (history)
    \* ---- read_json / process_one (lines 229-340)
    batch,      \* the text file: a sequence of runs [line, n] (n copies of line)
    rpc,        \* "start" | "read" | "written" | "done" (idle: "off")
    total,      \* parsed.count()
    ok_count,   \* parsed_ok.count()
    bad_count,  \* parsed_bad.count()
    rdf,        \* rows of the frame read_json returned, as runs [rec, n]
    rpath,      \* path read_json took: "none" | "unreadable" | "empty" | "direct" | "sample"
    rraised,    \* what raised inside process_one: "none" | "read" | "flatten" | "write"
    markers,    \* set of marker names present under the output prefix
    result,     \* return value of process_one: "none" | "true" | "false"
    put_failed, \* marker names whose put_object failed (logged at line 125)
    \* ---- parse_json_line_safe (lines 229-244)
    src,        \* the object a line was written from (history; NoneV for other lines)
    line,       \* the text line, a sequence of tokens
    parsed,     \* what parse_json_line_safe returned
    ppc,        \* "start" | "done" (idle: "off")
    \* ---- unique_name (lines 128-139)
    ubase,      \* argument `base`
    uexisting,  \* the registry `existing` as passed in
    ureturned,  \* the returned name (<<>> before the call)
    uafter,     \* the registry after the call
    upc,        \* "start" | "done" (idle: "off")
    \* ---- write_df (lines 283-318) and the job parameters it reads (lines 75-86)
    OUTPUT_FORMAT,  \* "parquet" | "csv" | "json" | another string
    PARTITION_BY,   \* NoneV or a string (sequence of characters)
    COALESCE,       \* int
    COMPRESSION,    \* "" | "none" | "snappy" | "gzip"
    wcols,      \* columns of the frame handed to write_df
    wpc,        \* "start" | "written" | "raised" (idle: "off")
    written,    \* what was written: [format, partitionBy, shards, codec] (NoneV before)
    \* ---- main (lines 343-382)
    FAIL_ON_ERROR,  \* the job parameter (line 80)
    mpc,        \* "start" | "review" | "meta" | "ended" | "exit" (idle: "off")
    review_ok,  \* "none" | "true" | "false"
    meta_ok,    \* "none" | "true" | "false"
    attempted,  \* labels of the datasets process_one was called for, in order (history)
    outcomes,   \* per finished dataset: what raised, its markers, its result (history)
    job_markers \* job-level markers written by main

flatVars == <<df0, max_iters, cur, it, pc, warned, prev, lastop, rewrites>>
readVars == <<batch, rpc, total, ok_count, bad_count, rdf, rpath, rraised, markers, result,
             put_failed>>
parseVars == <<src, line, parsed, ppc>>
nameVars == <<ubase, uexisting, ureturned, uafter, upc>>
writeVars == <<OUTPUT_FORMAT, PARTITION_BY, COALESCE, COMPRESSION, wcols, wpc, written>>
mainVars == <<FAIL_ON_ERROR, mpc, review_ok, meta_ok, attempted, outcomes, job_markers>>
vars == <<df0, max_iters, cur, it, pc, warned, prev, lastop, rewrites,
          batch, rpc, total, ok_count, bad_count, rdf, rpath, rraised, markers, result,
          put_failed,
          src, line, parsed, ppc,
          ubase, uexisting, ureturned, uafter, upc,
          OUTPUT_FORMAT, PARTITION_BY, COALESCE, COMPRESSION, wcols, wpc, written,
          FAIL_ON_ERROR, mpc, review_ok, meta_ok, attempted, outcomes, job_markers>>

\* ------------------------------------------------------------------ bounds
MaxCols == 2
MaxIters == 5

\* ------------------------------------------------------------------ names
Range(s) == {s[i] : i \in DOMAIN s}

RECURSIVE SeqSum(_)
SeqSum(s) == IF s = <<>> THEN 0 ELSE Head(s) + SeqSum(Tail(s))

Digit(d) == CASE d = 0 -> "0" [] d = 1 -> "1" [] d = 2 -> "2" [] d = 3 -> "3"
              [] d = 4 -> "4" [] d = 5 -> "5" [] d = 6 -> "6" [] d = 7 -> "7"
              [] d = 8 -> "8" [] d = 9 -> "9"

\* str(i) of the f-string in unique_name
RECURSIVE IntToStr(_)
IntToStr(i) == IF i < 10 THEN <<Digit(i)>> ELSE IntToStr(i \div 10) \o <<Digit(i % 10)>>

\* f"{a}_{b}"
Underscore(a, b) == a \o <<"_">> \o b

\* f"{name}.{child_name}"
Dotted(a, b) == a \o <<".">> \o b

\* c.replace(".", "_")
\* a plausible slip of line 188: the arguments of replace swapped
ReplaceDots_Swapped(c) == [i \in 1..Len(c) |-> IF c[i] = "_" THEN "." ELSE c[i]]

ReplaceDots(c) == [i \in 1..Len(c) |-> IF c[i] = "." THEN "_" ELSE c[i]]

HasDot(c) == \E i \in 1..Len(c) : c[i] = "."

\* the name parts col() reads from an unquoted name: split on "."
RECURSIVE SplitDots(_)
SplitDots(c) ==
    IF ~HasDot(c) THEN <<c>>
    ELSE LET i == CHOOSE j \in 1..Len(c) : c[j] = "." /\ \A k \in 1..(j-1) : c[k] # "."
         IN  <<SubSeq(c, 1, i-1)>> \o SplitDots(SubSeq(c, i+1, Len(c)))

\* ------------------------------------------------------------------ types and values
ScalarT == [kind |-> "scalar", sub |-> <<>>]
StructT(fields) == [kind |-> "struct", sub |-> fields]
ArrayT(e) == [kind |-> "array", sub |-> <<[name |-> <<>>, type |-> e]>>]
Elem(t) == t.sub[1].type
Fld(n, t) == [name |-> n, type |-> t]

Null == [k |-> "null", v |-> <<>>]
Sc(id) == [k |-> "s", v |-> id]
St(vs) == [k |-> "st", v |-> vs]
Ar(vs) == [k |-> "arr", v |-> vs]

Columns(df) == [i \in 1..Len(df.cols) |-> df.cols[i].name]

\* ------------------------------------------------------------------ Spark column operations
\* Column resolution of an unquoted name, as used by col(...) in lines 163, 168,
\* 171 and 221: the name is split on ".", the first part must name exactly one
\* top-level column and every further part is a field of a struct (or of the
\* structs of an array). Anything else is an AnalysisException.
FieldIdx(fields, n) == {j \in 1..Len(fields) : fields[j].name = n}

GetField(val, j) == IF val.k = "null" THEN Null ELSE val.v[j]

GetArrayStructFields(val, j) ==
    IF val.k = "null" THEN Null
    ELSE Ar([e \in 1..Len(val.v) |-> GetField(val.v[e], j)])

Unresolved == [ok |-> FALSE, type |-> ScalarT, vals |-> <<>>]

RECURSIVE ExtractValue(_, _, _, _)
ExtractValue(type, vals, parts, k) ==
    IF k > Len(parts) THEN [ok |-> TRUE, type |-> type, vals |-> vals]
    ELSE LET st  == IF type.kind = "struct" THEN type
                    ELSE IF type.kind = "array" /\ Elem(type).kind = "struct"
                         THEN Elem(type) ELSE ScalarT
             idx == FieldIdx(st.sub, parts[k])
         IN  IF Cardinality(idx) # 1 THEN Unresolved
             ELSE LET j == CHOOSE x \in idx : TRUE
                  IN  IF type.kind = "struct"
                      THEN ExtractValue(st.sub[j].type,
                                        [r \in 1..Len(vals) |-> GetField(vals[r], j)],
                                        parts, k + 1)
                      ELSE ExtractValue(ArrayT(st.sub[j].type),
                                        [r \in 1..Len(vals) |-> GetArrayStructFields(vals[r], j)],
                                        parts, k + 1)

Resolve(df, path) ==
    LET parts == SplitDots(path)
        heads == {i \in 1..Len(df.cols) : df.cols[i].name = parts[1]}
    IN  IF Cardinality(heads) # 1 THEN Unresolved
        ELSE LET i == CHOOSE x \in heads : TRUE
             IN  ExtractValue(df.cols[i].type,
                              [r \in 1..Len(df.rows) |-> df.rows[r][i]], parts, 2)

\* df.select(*select_cols): an entry is col(path) or col(path).alias(alias);
\* an unaliased column is named by the last part of its path.
Select(df, sel) ==
    LET res == [i \in 1..Len(sel) |-> Resolve(df, sel[i].path)]
        out == [cols |-> [i \in 1..Len(sel) |->
                            Fld(IF sel[i].alias # <<>> THEN sel[i].alias
                                ELSE LET p == SplitDots(sel[i].path) IN p[Len(p)],
                                res[i].type)],
                rows |-> [r \in 1..Len(df.rows) |->
                            [i \in 1..Len(sel) |-> res[i].vals[r]]]]
    IN  IF \A i \in 1..Len(sel) : res[i].ok
        THEN [ok |-> TRUE, df |-> out] ELSE [ok |-> FALSE, df |-> df]

\* out.withColumnRenamed(orig, new): every column named orig is renamed
withColumnRenamed(df, orig, new) ==
    [df EXCEPT !.cols = [i \in 1..Len(df.cols) |->
                           IF df.cols[i].name = orig
                           THEN Fld(new, df.cols[i].type) ELSE df.cols[i]]]

RECURSIVE Concat(_)
Concat(ss) == IF ss = <<>> THEN <<>> ELSE Head(ss) \o Concat(Tail(ss))

\* explode_outer on one row: one row per element, one null row for empty or null
ExplodeRow(row, elems, targets) ==
    IF elems.k = "null" \/ Len(elems.v) = 0
    THEN << [i \in 1..Len(row) |-> IF i \in targets THEN Null ELSE row[i]] >>
    ELSE [e \in 1..Len(elems.v) |->
            [i \in 1..Len(row) |-> IF i \in targets THEN elems.v[e] ELSE row[i]]]

\* cur.withColumn(arr_col, explode_outer(col(arr_col)))   (line 221)
explode_column(df, arr_col) ==
    LET r == Resolve(df, arr_col)
        targets == {i \in 1..Len(df.cols) : df.cols[i].name = arr_col}
    IN  IF ~r.ok \/ r.type.kind # "array" THEN [ok |-> FALSE, df |-> df]
        ELSE [ok |-> TRUE,
              df |-> [cols |-> [i \in 1..Len(df.cols) |->
                                  IF i \in targets THEN Fld(arr_col, Elem(r.type))
                                  ELSE df.cols[i]],
                      rows |-> Concat([rr \in 1..Len(df.rows) |->
                                  ExplodeRow(df.rows[rr], r.vals[rr], targets)])]]

\* ------------------------------------------------------------------ unique_name (lines 128-139)
RECURSIVE unique_loop(_, _, _)
unique_loop(base, existing, i) ==
    LET candidate == Underscore(base, IntToStr(i))
    IN  IF candidate \notin existing
        THEN [name |-> candidate, existing |-> existing \cup {candidate}]
        ELSE unique_loop(base, existing, i + 1)

\* a plausible slip of line 133: the counter starts at 0
unique_name_FromZero(base, existing) ==
    IF base \notin existing
    THEN [name |-> base, existing |-> existing \cup {base}]
    ELSE unique_loop(base, existing, 0)

unique_name(base, existing) ==
    IF base \notin existing
    THEN [name |-> base, existing |-> existing \cup {base}]
    ELSE unique_loop(base, existing, 1)

\* ------------------------------------------------------------------ flatten_structs (lines 142-173)
HasStruct(df) == \E i \in 1..Len(df.cols) : df.cols[i].type.kind = "struct"

\* the inner loop `for child in dtype` (lines 159-164)
RECURSIVE fs_children(_, _, _, _, _)
fs_children(name, children, j, existing, sel) ==
    IF j > Len(children) THEN [existing |-> existing, sel |-> sel]
    ELSE LET child_name == children[j].name
             base == Underscore(name, child_name)
             u == unique_name(base, existing)
         IN  fs_children(name, children, j + 1, u.existing,
                         Append(sel, [path |-> Dotted(name, child_name), alias |-> u.name]))

\* the loop `for field in schema.fields` (lines 153-172)
RECURSIVE fs_fields(_, _, _, _)
fs_fields(fields, k, existing, sel) ==
    IF k > Len(fields) THEN sel
    ELSE LET name == fields[k].name
             dtype == fields[k].type
         IN  IF dtype.kind = "struct"
             THEN LET c == fs_children(name, dtype.sub, 1, existing \ {name}, sel)
                  IN  fs_fields(fields, k + 1, c.existing, c.sel)
             ELSE IF name \in existing
                  THEN fs_fields(fields, k + 1, existing \ {name},
                                 Append(sel, [path |-> name, alias |-> <<>>]))
                  ELSE LET u == unique_name(name, existing)
                       IN  fs_fields(fields, k + 1, u.existing,
                                     Append(sel, [path |-> name, alias |-> u.name]))

flatten_structs(df) ==
    IF ~HasStruct(df) THEN [ok |-> TRUE, df |-> df]
    ELSE Select(df, fs_fields(df.cols, 1, Range(Columns(df)), <<>>))

\* ------------------------------------------------------------------ find_array_column (lines 175-180)
\* <<>> stands for None
find_array_column(df) ==
    LET arrs == {i \in 1..Len(df.cols) : df.cols[i].type.kind = "array"}
    IN  IF arrs = {} THEN <<>>
        ELSE df.cols[CHOOSE i \in arrs : \A j \in arrs : i <= j].name

\* ------------------------------------------------------------------ sanitize_column_names (lines 182-199)
RECURSIVE san_loop(_, _, _, _)
san_loop(cols, k, existing, new_cols) ==
    IF k > Len(cols) THEN new_cols
    ELSE LET c == cols[k]
             clean == ReplaceDots(c)
         IN  IF clean \in existing
             THEN LET u == unique_name(clean, existing)
                  IN  san_loop(cols, k + 1, u.existing, Append(new_cols, <<c, u.name>>))
             ELSE san_loop(cols, k + 1, existing \cup {clean}, Append(new_cols, <<c, clean>>))

RECURSIVE san_rename(_, _, _)
san_rename(out, new_cols, k) ==
    IF k > Len(new_cols) THEN out
    ELSE LET orig == new_cols[k][1]
             new  == new_cols[k][2]
         IN  san_rename(IF orig # new THEN withColumnRenamed(out, orig, new) ELSE out,
                        new_cols, k + 1)

sanitize_column_names(df) == san_rename(df, san_loop(Columns(df), 1, {}, <<>>), 1)

\* ------------------------------------------------------------------ input frames
nx     == <<"x">>
nx_y   == <<"x", "_", "y">>
nxdy   == <<"x", ".", "y">>
ny     == <<"y">>
nz     == <<"z">>

Names == {nx, nx_y, nxdy}

TypePool ==
    { ScalarT,
      StructT(<<Fld(ny, ScalarT)>>),
      StructT(<<Fld(ny, ScalarT), Fld(nz, ScalarT)>>),
      StructT(<<Fld(ny, StructT(<<Fld(nz, ScalarT)>>))>>),
      StructT(<<Fld(ny, ArrayT(ScalarT))>>),
      ArrayT(ScalarT),
      ArrayT(StructT(<<Fld(ny, ScalarT)>>)),
      ArrayT(ArrayT(ScalarT)) }

\* how the composite cells of a row are filled: arrays of two elements, empty
\* arrays, or null composites; and the row-kind sequences of the input frames
RowPatterns == { <<"two">>, <<"two", "empty">>, <<"null", "two">> }

\* the cell of type t in a row of kind rk; scalars carry the path they sit at
RECURSIVE Gen(_, _, _)
Gen(t, rk, id) ==
    IF t.kind = "scalar" THEN Sc(id)
    ELSE IF rk = "null" THEN Null
    ELSE IF t.kind = "struct"
         THEN St([i \in 1..Len(t.sub) |-> Gen(t.sub[i].type, rk, id \o <<i>>)])
    ELSE IF rk = "empty" THEN Ar(<<>>)
    ELSE Ar(<<Gen(Elem(t), rk, id \o <<1>>), Gen(Elem(t), rk, id \o <<2>>)>>)

Distinct(s) == \A i, j \in 1..Len(s) : i # j => s[i] # s[j]

MkFrame(ns, ts, rks) ==
    [cols |-> [i \in 1..Len(ns) |-> Fld(ns[i], ts[i])],
     rows |-> [r \in 1..Len(rks) |-> [i \in 1..Len(ns) |-> Gen(ts[i], rks[r], <<r, i>>)]]]

Frames ==
    UNION { { MkFrame(ns, ts, rks) :
                ns \in {q \in [1..n -> Names] : Distinct(q)},
                ts \in [1..n -> TypePool],
                rks \in RowPatterns }
            : n \in 1..MaxCols }

\* a plausible slip of line 212: the array test is forgotten
IsFlat_StructOnly(df) == ~HasStruct(df)

\* `not has_struct and not arr_col` (line 212)
IsFlat(df) == ~HasStruct(df) /\ find_array_column(df) = <<>>

\* a plausible slip of line 223: `>` for `>=`
ShouldWarn_Strict(itv, m) == itv > m

\* `it >= max_iters` (line 223)
ShouldWarn(itv, m) == itv >= m

\* a plausible slip of lines 215-219: the array branch does not wait for the structs
ExplodeBranch_NoPriority(df) == find_array_column(df) # <<>>

\* the iteration gets to `if arr_col` (line 219): no struct took the branch of
\* line 215, and find_array_column found a column
ExplodeBranch(df) == ~HasStruct(df) /\ find_array_column(df) # <<>>

\* ------------------------------------------------------------------ flatten_df (lines 201-226)
NoneV == [k |-> "none", v |-> <<>>]

ParseIdle == src = NoneV /\ line = <<>> /\ parsed = NoneV /\ ppc = "off"

ReadIdle ==
    /\ batch = <<>> /\ rpc = "off" /\ total = 0 /\ ok_count = 0 /\ bad_count = 0
    /\ rdf = <<>> /\ rpath = "none" /\ rraised = "none" /\ markers = {} /\ result = "none"
    /\ put_failed = {}

NameIdle ==
    ubase = <<>> /\ uexisting = {} /\ ureturned = <<>> /\ uafter = {} /\ upc = "off"

WriteIdle ==
    /\ OUTPUT_FORMAT = "parquet" /\ PARTITION_BY = NoneV /\ COALESCE = 0
    /\ COMPRESSION = "snappy" /\ wcols = <<>> /\ wpc = "off" /\ written = NoneV

MainIdle ==
    /\ FAIL_ON_ERROR = TRUE /\ mpc = "off" /\ review_ok = "none" /\ meta_ok = "none"
    /\ attempted = <<>> /\ outcomes = <<>> /\ job_markers = {}

Init ==
    /\ df0 \in Frames
    /\ max_iters \in 0..MaxIters
    /\ cur = df0 /\ it = 0 /\ pc = "loop" /\ warned = FALSE
    /\ prev = df0 /\ lastop = "none" /\ rewrites = 0
    /\ ReadIdle /\ ParseIdle /\ NameIdle /\ WriteIdle /\ MainIdle

\* one loop iteration that takes the `if has_struct` branch (lines 215-218)
StructStep ==
    /\ pc = "loop" /\ it < max_iters /\ HasStruct(cur)
    /\ LET r == flatten_structs(cur)
       IN  /\ cur' = r.df
           /\ pc' = IF r.ok THEN "loop" ELSE "raised"
           /\ rewrites' = IF r.ok THEN rewrites + 1 ELSE rewrites
    /\ it' = it + 1 /\ prev' = cur /\ lastop' = "struct"
    /\ UNCHANGED <<df0, max_iters, warned>> /\ UNCHANGED <<readVars, parseVars, nameVars, writeVars, mainVars>>

\* one loop iteration that takes the `if arr_col` branch (lines 219-222)
ExplodeStep ==
    /\ pc = "loop" /\ it < max_iters /\ ExplodeBranch(cur)
    /\ LET r == explode_column(cur, find_array_column(cur))
       IN  /\ cur' = r.df
           /\ pc' = IF r.ok THEN "loop" ELSE "raised"
           /\ rewrites' = IF r.ok THEN rewrites + 1 ELSE rewrites
    /\ it' = it + 1 /\ prev' = cur /\ lastop' = "explode"
    /\ UNCHANGED <<df0, max_iters, warned>> /\ UNCHANGED <<readVars, parseVars, nameVars, writeVars, mainVars>>

\* lines 223-226 with `it` at the value the loop left it at
Finish(itv) ==
    /\ it' = itv
    /\ warned' = ShouldWarn(itv, max_iters)
    /\ cur' = sanitize_column_names(cur)
    /\ prev' = cur /\ lastop' = "sanitize" /\ pc' = "returned"
    /\ UNCHANGED <<df0, max_iters, rewrites>> /\ UNCHANGED <<readVars, parseVars, nameVars, writeVars, mainVars>>

\* the iteration that finds nothing to rewrite and breaks (lines 208-214), then 223-226
Complete ==
    /\ pc = "loop" /\ it < max_iters /\ IsFlat(cur)
    /\ Finish(it + 1)

\* the loop condition fails (line 207), then 223-226
Exhaust ==
    /\ pc = "loop" /\ it >= max_iters
    /\ Finish(it)

Next == StructStep \/ ExplodeStep \/ Complete \/ Exhaust

Spec == Init /\ [][Next]_vars

\* ------------------------------------------------------------------ measures of a schema
Max2(a, b) == IF a >= b THEN a ELSE b

RECURSIVE SeqMax(_)
SeqMax(s) == IF s = <<>> THEN 0 ELSE Max2(Head(s), SeqMax(Tail(s)))

\* nested-object depth of a type (arrays do not add depth)
RECURSIVE StructDepth(_)
StructDepth(t) ==
    IF t.kind = "scalar" THEN 0
    ELSE IF t.kind = "array" THEN StructDepth(Elem(t))
    ELSE 1 + SeqMax([i \in 1..Len(t.sub) |-> StructDepth(t.sub[i].type)])

\* number of array-typed nodes of a type
RECURSIVE ArrayCount(_)
ArrayCount(t) ==
    IF t.kind = "scalar" THEN 0
    ELSE (IF t.kind = "array" THEN 1 ELSE 0)
         + SeqSum([i \in 1..Len(t.sub) |-> ArrayCount(t.sub[i].type)])

\* number of nested-object nodes of a type
RECURSIVE StructCount(_)
StructCount(t) ==
    IF t.kind = "scalar" THEN 0
    ELSE (IF t.kind = "struct" THEN 1 ELSE 0)
         + SeqSum([i \in 1..Len(t.sub) |-> StructCount(t.sub[i].type)])

DepthD(df) == SeqMax([i \in 1..Len(df.cols) |-> StructDepth(df.cols[i].type)])
ArraysA(df) == SeqSum([i \in 1..Len(df.cols) |-> ArrayCount(df.cols[i].type)])
StructsS(df) == SeqSum([i \in 1..Len(df.cols) |-> StructCount(df.cols[i].type)])

NoDots(df) == \A i \in 1..Len(df.cols) : ~HasDot(df.cols[i].name)

\* no nested-object and no array column
AllScalar(df) == \A i \in 1..Len(df.cols) : df.cols[i].type.kind = "scalar"

nx_y_1 == <<"x", "_", "y", "_", "1">>

\* ------------------------------------------------------------------ C1
\* C1: for a frame with pairwise distinct column names (dots allowed), the final
\* sanitize pass of flatten_df returns as many columns, with pairwise distinct
\* names; scalar columns "x.y" and "x_y" come out as x_y and x_y_1.
C1_SanitizeKeepsNamesDistinct ==
    (pc = "returned" /\ Distinct(Columns(prev))) =>
        /\ Len(cur.cols) = Len(prev.cols)
        /\ Distinct(Columns(cur))
        /\ (AllScalar(prev) /\ Range(Columns(prev)) = {nxdy, nx_y})
              => Range(Columns(cur)) = {nx_y, nx_y_1}

\* ------------------------------------------------------------------ C2
\* what one inlining pass is claimed to produce from frame p: per input column,
\* in order, either the column itself or one entry per child of the struct
ExpectedInline(p) ==
    Concat([i \in 1..Len(p.cols) |->
        IF p.cols[i].type.kind = "struct"
        THEN [j \in 1..Len(p.cols[i].type.sub) |->
                [child |-> TRUE,
                 name |-> Underscore(p.cols[i].name, p.cols[i].type.sub[j].name),
                 type |-> p.cols[i].type.sub[j].type,
                 vals |-> [r \in 1..Len(p.rows) |-> GetField(p.rows[r][i], j)]]]
        ELSE << [child |-> FALSE, name |-> p.cols[i].name, type |-> p.cols[i].type,
                 vals |-> [r \in 1..Len(p.rows) |-> p.rows[r][i]]] >>])

InlineRelation(p, c) ==
    LET exp == ExpectedInline(p)
        taken(e) == \/ exp[e].name \in Range(Columns(p))
                    \/ \E f \in 1..Len(exp) : f # e /\ exp[f].name = exp[e].name
    IN  /\ Len(c.cols) = Len(exp)
        /\ Len(c.rows) = Len(p.rows)
        /\ \A e \in 1..Len(exp) :
              /\ c.cols[e].type = exp[e].type
              /\ \A r \in 1..Len(p.rows) : c.rows[r][e] = exp[e].vals[r]
              /\ ~exp[e].child => c.cols[e].name = exp[e].name
              /\ (exp[e].child /\ ~taken(e)) => c.cols[e].name = exp[e].name

\* C2: one flatten_structs pass over a frame with pairwise distinct names replaces
\* each top-level struct by its children in place (named p_c when that name is
\* free, holding the child's values, nested children left as they are), keeps
\* every other column's name and values, and keeps the row count.
C2_StructPassInlines ==
    (lastop = "struct" /\ Distinct(Columns(prev))) =>
        pc # "raised" /\ InlineRelation(prev, cur)

\* the same statement for frames whose names contain no "."
C2_DotFreeStructPassInlines ==
    (lastop = "struct" /\ Distinct(Columns(prev)) /\ NoDots(prev)) =>
        pc # "raised" /\ InlineRelation(prev, cur)

\* ------------------------------------------------------------------ C3
FirstArrayIdx(p) ==
    CHOOSE i \in 1..Len(p.cols) :
        /\ p.cols[i].type.kind = "array"
        /\ \A j \in 1..(i - 1) : p.cols[j].type.kind # "array"

ExplodeRelation(p, c) ==
    LET a == FirstArrayIdx(p)
        rowsOf(r) == LET arr == p.rows[r][a]
                     IN  IF arr.k = "null" \/ Len(arr.v) = 0
                         THEN << [p.rows[r] EXCEPT ![a] = Null] >>
                         ELSE [e \in 1..Len(arr.v) |-> [p.rows[r] EXCEPT ![a] = arr.v[e]]]
        len(r) == IF p.rows[r][a].k = "null" THEN 0 ELSE Len(p.rows[r][a].v)
    IN  /\ Columns(c) = Columns(p)
        /\ \A i \in 1..Len(p.cols) :
              c.cols[i].type = IF i = a THEN Elem(p.cols[a].type) ELSE p.cols[i].type
        /\ c.rows = Concat([r \in 1..Len(p.rows) |-> rowsOf(r)])
        /\ Len(c.rows) = SeqSum([r \in 1..Len(p.rows) |-> Max2(1, len(r))])

\* C3: an array-explosion step explodes the first array column only: a row with
\* L >= 1 elements becomes L rows in element order, a row with an empty or null
\* array becomes one row with null, every other column is kept as it was.
C3_ExplodeFirstArray ==
    (lastop = "explode" /\ pc # "raised") => ExplodeRelation(prev, cur)

\* the same statement for frames whose names contain no "."
C3_DotFreeExplodeFirstArray ==
    (lastop = "explode" /\ pc # "raised" /\ NoDots(prev)) => ExplodeRelation(prev, cur)

C5_NeverRaisesBoundedRewrites ==
    /\ pc # "raised"
    /\ rewrites <= max_iters
    /\ lastop \in {"struct", "explode"} => ~AllScalar(prev)
    /\ (pc = "returned" /\ rewrites < max_iters) => AllScalar(cur)

\* ------------------------------------------------------------------ C6
\* C6: a returned frame that still has a nested-object or array column was
\* returned (not raised) with the max-iterations warning logged.
C6_PartialResultIsWarned ==
    (pc = "returned" /\ ~AllScalar(cur)) => warned

C6_Witness == pc = "returned" /\ ~AllScalar(cur) /\ warned /\ rewrites >= 1

\* ------------------------------------------------------------------ C12
\* C12: after flatten_df returns, no column name of the returned frame contains
\* '.', whatever the input names were (dotted names, names that sanitize alike).
C12_ReturnedNamesDotFree == pc = "returned" => NoDots(cur)

\* a frame with a dotted name and the name it sanitizes to has been returned
C12_Witness ==
    pc = "returned" /\ lastop = "sanitize" /\ Range(Columns(df0)) = {nxdy, nx_y}

\* ------------------------------------------------------------------ C14
\* C14: one flatten_structs pass over a frame with pairwise distinct column names
\* produces a frame with pairwise distinct column names, the untouched columns
\* standing before or after the structs.
C14_StructPassKeepsNamesDistinct ==
    (lastop = "struct" /\ pc # "raised" /\ Distinct(Columns(prev))) => Distinct(Columns(cur))

\* the same for dot-free names, and for untouched columns that follow every struct
C14_DotFreeStructPassKeepsNamesDistinct ==
    (lastop = "struct" /\ pc # "raised" /\ Distinct(Columns(prev)) /\ NoDots(prev))
        => Distinct(Columns(cur))

C14_UntouchedAfterStructs ==
    (lastop = "struct" /\ pc # "raised" /\ Distinct(Columns(prev)) /\ NoDots(prev)
       /\ \A i, j \in 1..Len(prev.cols) :
             (prev.cols[i].type.kind # "struct" /\ prev.cols[j].type.kind = "struct") => j < i)
        => Distinct(Columns(cur))

\* ------------------------------------------------------------------ C16
\* C16: every loop iteration that rewrites applies one class of rewrite, the
\* struct inlining whenever the frame has a struct column and the array
\* explosion only when it has none.
C16_StructsBeforeArrays ==
    [][(it' = it + 1 /\ lastop' # "sanitize")
          => /\ lastop' = (IF HasStruct(cur) THEN "struct" ELSE "explode")
             /\ rewrites' <= rewrites + 1]_vars

\* an array was exploded in a run whose input had a struct and an array column
C16_Witness ==
    /\ lastop = "explode" /\ pc = "loop" /\ HasStruct(df0)
    /\ \E i \in 1..Len(df0.cols) : df0.cols[i].type.kind = "array"
    /\ ~HasStruct(prev)

\* ------------------------------------------------------------------ C18
\* C18: the max-iterations warning is logged only when the returned frame still
\* has a struct or array column.
C18_WarningOnlyWhenNested == (pc = "returned" /\ warned) => ~AllScalar(cur)

\* the case of a frame that is flat on entry with max_iters >= 1
C18_FlatOnEntryNoWarning ==
    (pc = "returned" /\ AllScalar(df0) /\ max_iters >= 1) => ~warned

\* ------------------------------------------------------------------ JSON text
\* A line is a sequence of tokens: punctuation, string tokens (keys), number
\* tokens, the literal null and the blank " ".
Strings == {"a", "b"}
Numbers == {"1", "2"}

MaxPairs == 2

Lit(tok) == [k |-> "lit", v |-> <<tok>>]
Dict(entries) == [k |-> "dict", v |-> entries]
List(elems) == [k |-> "list", v |-> elems]
Entry(key, val) == [key |-> key, val |-> val]

\* str.strip(): drop leading and trailing blanks
RECURSIVE Strip(_)
Strip(s) ==
    IF s = <<>> THEN s
    ELSE IF Head(s) = " " THEN Strip(Tail(s))
    ELSE IF s[Len(s)] = " " THEN Strip(SubSeq(s, 1, Len(s) - 1))
    ELSE s

\* a slip of the hook: the first value of a key is kept (d.setdefault(k, v))
RECURSIVE object_pairs_firstwin(_)
object_pairs_firstwin(pairs) ==
    IF pairs = <<>> THEN <<>>
    ELSE LET d == object_pairs_firstwin(SubSeq(pairs, 1, Len(pairs) - 1))
             kv == pairs[Len(pairs)]
         IN  IF \E i \in 1..Len(d) : d[i].key = kv.key THEN d ELSE Append(d, kv)

\* _object_pairs_lastwin (lines 229-234): `d[k] = v` over the pairs in order; a dict
\* is the sequence of its entries in insertion order, and assigning to a key that
\* is present replaces its value in place
RECURSIVE object_pairs_lastwin(_)
object_pairs_lastwin(pairs) ==
    IF pairs = <<>> THEN <<>>
    ELSE LET d == object_pairs_lastwin(SubSeq(pairs, 1, Len(pairs) - 1))
             kv == pairs[Len(pairs)]
         IN  IF \E i \in 1..Len(d) : d[i].key = kv.key
             THEN [i \in 1..Len(d) |-> IF d[i].key = kv.key THEN kv ELSE d[i]]
             ELSE Append(d, kv)

\* json.loads(s, object_pairs_hook=...) (line 242): a recursive-descent parser
RECURSIVE SkipWs(_, _)
SkipWs(toks, i) == IF i <= Len(toks) /\ toks[i] = " " THEN SkipWs(toks, i + 1) ELSE i

ParseFail == [ok |-> FALSE, val |-> NoneV, next |-> 0]

RECURSIVE ParseValue(_, _)
RECURSIVE ParseMembers(_, _, _)
RECURSIVE ParseElements(_, _, _)

ParseValue(toks, i0) ==
    LET i == SkipWs(toks, i0)
    IN  IF i > Len(toks) THEN ParseFail
        ELSE IF toks[i] \in Numbers \cup Strings
             THEN [ok |-> TRUE, val |-> Lit(toks[i]), next |-> i + 1]
        ELSE IF toks[i] = "null" THEN [ok |-> TRUE, val |-> NoneV, next |-> i + 1]
        ELSE IF toks[i] = "{"
             THEN LET j == SkipWs(toks, i + 1)
                  IN  IF j <= Len(toks) /\ toks[j] = "}"
                      THEN [ok |-> TRUE, val |-> Dict(object_pairs_lastwin(<<>>)), next |-> j + 1]
                      ELSE ParseMembers(toks, j, <<>>)
        ELSE IF toks[i] = "["
             THEN LET j == SkipWs(toks, i + 1)
                  IN  IF j <= Len(toks) /\ toks[j] = "]"
                      THEN [ok |-> TRUE, val |-> List(<<>>), next |-> j + 1]
                      ELSE ParseElements(toks, j, <<>>)
        ELSE ParseFail

\* i is where a key must stand
ParseMembers(toks, i, pairs) ==
    IF i > Len(toks) \/ toks[i] \notin Strings THEN ParseFail
    ELSE LET c == SkipWs(toks, i + 1)
         IN  IF c > Len(toks) \/ toks[c] # ":" THEN ParseFail
             ELSE LET v == ParseValue(toks, c + 1)
                      e == SkipWs(toks, v.next)
                      ps == Append(pairs, Entry(toks[i], v.val))
                  IN  IF ~v.ok \/ e > Len(toks) THEN ParseFail
                      ELSE IF toks[e] = ","
                           THEN ParseMembers(toks, SkipWs(toks, e + 1), ps)
                      ELSE IF toks[e] = "}"
                           THEN [ok |-> TRUE, val |-> Dict(object_pairs_lastwin(ps)),
                                 next |-> e + 1]
                      ELSE ParseFail

\* i is where an element must stand
ParseElements(toks, i, elems) ==
    LET v == ParseValue(toks, i)
        e == SkipWs(toks, v.next)
        es == Append(elems, v.val)
    IN  IF ~v.ok \/ e > Len(toks) THEN ParseFail
        ELSE IF toks[e] = "," THEN ParseElements(toks, SkipWs(toks, e + 1), es)
        ELSE IF toks[e] = "]" THEN [ok |-> TRUE, val |-> List(es), next |-> e + 1]
        ELSE ParseFail

\* json.loads: one value, then nothing but blanks
json_loads(s) ==
    LET v == ParseValue(s, 1)
    IN  IF v.ok /\ SkipWs(s, v.next) > Len(s) THEN v ELSE ParseFail

\* parse_json_line_safe (lines 236-244): None on a blank line and on any error
parse_json_line_safe(ln) ==
    LET s == Strip(ln)
    IN  IF s = <<>> THEN NoneV
        ELSE LET r == json_loads(s) IN IF r.ok THEN r.val ELSE NoneV

\* ------------------------------------------------------------------ input lines
\* the text of a value as a producer writes it; an object is written pair by
\* pair, duplicates included. sp is the separator blank (<<>> or <<" ">>)
RECURSIVE Render(_, _)
RECURSIVE RenderPairs(_, _)
RECURSIVE RenderElems(_, _)
Render(v, sp) ==
    IF v.k = "lit" THEN v.v
    ELSE IF v.k = "dict" THEN <<"{">> \o sp \o RenderPairs(v.v, sp) \o <<"}">>
    ELSE <<"[">> \o RenderElems(v.v, sp) \o sp \o <<"]">>
RenderPairs(ps, sp) ==
    IF ps = <<>> THEN <<>>
    ELSE <<ps[1].key>> \o sp \o <<":">> \o sp \o Render(ps[1].val, sp)
         \o (IF Len(ps) > 1 THEN <<",">> \o sp ELSE <<>>) \o RenderPairs(Tail(ps), sp)
RenderElems(es, sp) ==
    IF es = <<>> THEN <<>>
    ELSE Render(es[1], sp) \o (IF Len(es) > 1 THEN sp \o <<",">> ELSE <<>>)
         \o RenderElems(Tail(es), sp)

PairLists(keys, vals) ==
    UNION { [1..n -> {Entry(key, val) : key \in keys, val \in vals}] : n \in 0..MaxPairs }

Leaves == {Lit(t) : t \in Numbers}

\* objects nested in an object
InnerObjs ==
    { Dict(<<>>),
      Dict(<<Entry("a", Lit("1"))>>),
      Dict(<<Entry("a", Lit("1")), Entry("a", Lit("2"))>>),
      Dict(<<Entry("a", Lit("2")), Entry("b", Lit("2")), Entry("a", Lit("1"))>>) }

InnerLists ==
    { List(<<Dict(<<Entry("a", Lit("1")), Entry("a", Lit("2"))>>)>>),
      List(<<Lit("1"), Dict(<<Entry("b", Lit("2")), Entry("b", Lit("1"))>>)>>) }

SrcObjs == {Dict(ps) : ps \in PairLists(Strings, Leaves \cup InnerObjs \cup InnerLists)}

BlankLines == { <<>>, <<" ">>, <<" ", " ">> }

MalformedLines ==
    { <<"{">>, <<"}">>, <<"{", "a", ":", "1">>, <<"{", "a", "1", "}">>,
      <<"{", "a", ":", "1", ",", "}">>, <<"{", "a", ":", "1", "}", "}">>,
      <<"{", "1", ":", "a", "}">>, <<"{", "a", ":", "}">>, <<"[", "1", ",", "]">>,
      <<"{", "a", ":", "{", "a", ":", "1", "}">>, <<" ", "{", "a", ":", "1", " ">> }

\* ------------------------------------------------------------------ one line through the parser
FlatIdle ==
    /\ df0 = [cols |-> <<>>, rows |-> <<>>] /\ cur = df0 /\ prev = df0
    /\ max_iters = 0 /\ it = 0 /\ pc = "off" /\ warned = FALSE
    /\ lastop = "none" /\ rewrites = 0

InitParse ==
    /\ \/ /\ src \in SrcObjs
          /\ line \in {Render(src, <<>>), <<" ">> \o Render(src, <<" ">>) \o <<" ">>}
       \/ /\ src = NoneV
          /\ line \in MalformedLines \cup BlankLines
    /\ parsed = NoneV /\ ppc = "start"
    /\ FlatIdle /\ ReadIdle /\ NameIdle /\ WriteIdle /\ MainIdle

ParseLine ==
    /\ ppc = "start"
    /\ parsed' = parse_json_line_safe(line)
    /\ ppc' = "done"
    /\ UNCHANGED <<src, line>> /\ UNCHANGED <<flatVars, readVars, nameVars, writeVars, mainVars>>

NextParse == ParseLine

SpecParse == InitParse /\ [][NextParse]_vars

\* ------------------------------------------------------------------ C7
LastIndex(ps, key) ==
    CHOOSE i \in 1..Len(ps) : ps[i].key = key /\ \A j \in (i + 1)..Len(ps) : ps[j].key # key

\* record d is what last-write-wins makes of the written value s, at every level
RECURSIVE Agrees(_, _)
Agrees(d, s) ==
    IF s.k = "lit" THEN d = s
    ELSE IF s.k = "list"
         THEN /\ d.k = "list" /\ Len(d.v) = Len(s.v)
              /\ \A i \in 1..Len(s.v) : Agrees(d.v[i], s.v[i])
    ELSE /\ d.k = "dict"
         /\ \A i, j \in 1..Len(d.v) : i # j => d.v[i].key # d.v[j].key
         /\ {d.v[i].key : i \in 1..Len(d.v)} = {s.v[i].key : i \in 1..Len(s.v)}
         /\ \A i \in 1..Len(d.v) : Agrees(d.v[i].val, s.v[LastIndex(s.v, d.v[i].key)].val)

\* C7: the record parsed from the text of an object holds each key once, with the
\* value of the key's last occurrence in the text, at every nesting level.
C7_LastWriteWins ==
    (ppc = "done" /\ src.k = "dict") => Agrees(parsed, src)

HasDuplicateKey(s) == \E i, j \in 1..Len(s.v) : i < j /\ s.v[i].key = s.v[j].key

\* a parsed object with a duplicate key at the top level and inside a nested object
C7_Witness ==
    /\ ppc = "done" /\ src.k = "dict" /\ parsed.k = "dict"
    /\ HasDuplicateKey(src)
    /\ \E i \in 1..Len(src.v) : src.v[i].val.k = "dict" /\ HasDuplicateKey(src.v[i].val)

\* ------------------------------------------------------------------ one call of unique_name
MaxSuffix == 3
MaxTaken == 10

\* base_1 .. base_12, written out
Dec == << <<"1">>, <<"2">>, <<"3">>, <<"4">>, <<"5">>, <<"6">>, <<"7">>, <<"8">>, <<"9">>,
          <<"1", "0">>, <<"1", "1">>, <<"1", "2">> >>

Suffixed(base, i) == base \o <<"_">> \o Dec[i]

Bases == {nx, Suffixed(nx, 1)}

\* registries: any mix of x, x_1 .. x_MaxSuffix, x_1_1 and y, and the registries in
\* which x and x_1 .. x_k are all taken
Registries ==
    SUBSET ({nx, ny, Suffixed(Suffixed(nx, 1), 1)} \cup {Suffixed(nx, i) : i \in 1..MaxSuffix})
    \cup { {nx} \cup {Suffixed(nx, i) : i \in 1..k} : k \in 0..MaxTaken }

InitUnique ==
    /\ ubase \in Bases /\ uexisting \in Registries
    /\ ureturned = <<>> /\ uafter = uexisting /\ upc = "start"
    /\ FlatIdle /\ ReadIdle /\ ParseIdle /\ WriteIdle /\ MainIdle

UniqueName ==
    /\ upc = "start"
    /\ LET r == unique_name(ubase, uexisting)
       IN  ureturned' = r.name /\ uafter' = r.existing
    /\ upc' = "done"
    /\ UNCHANGED <<ubase, uexisting>>
    /\ UNCHANGED <<flatVars, readVars, parseVars, writeVars, mainVars>>

NextUnique == UniqueName

SpecUnique == InitUnique /\ [][NextUnique]_vars

\* ------------------------------------------------------------------ C15
\* C15: unique_name returns base itself when base is not registered, and otherwise
\* base_i for the smallest i >= 1 with base_i not registered; the returned name
\* was not registered before, is registered after, and the registry is otherwise
\* unchanged.
C15_SmallestFreeSuffix ==
    upc = "done" =>
        /\ ubase \notin uexisting => ureturned = ubase
        /\ ubase \in uexisting =>
              \E i \in 1..Len(Dec) :
                  /\ ureturned = Suffixed(ubase, i)
                  /\ \A j \in 1..(i - 1) : Suffixed(ubase, j) \in uexisting
        /\ ureturned \notin uexisting
        /\ uafter = uexisting \cup {ureturned}

\* a call that had to skip a taken suffix, and one that got to two digits
C15_Witness ==
    upc = "done" /\ ubase \in uexisting /\ ureturned = Suffixed(ubase, 2)

C15_WitnessTwoDigits ==
    upc = "done" /\ ubase = nx /\ ureturned = Suffixed(nx, 10)

\* ------------------------------------------------------------------ the text file and the RDD
\* An RDD is kept run-length encoded: a sequence of runs [x, n], n copies of x.
MaxLines == 3
MaxRun == 1001
SampleCap == 1000

Run(x, n) == [x |-> x, n |-> n]

\* rdd.filter(...): the runs whose index is in keep
RECURSIVE RddKeep(_, _, _)
RddKeep(rdd, keep, i) ==
    IF i > Len(rdd) THEN <<>>
    ELSE (IF i \in keep THEN <<rdd[i]>> ELSE <<>>) \o RddKeep(rdd, keep, i + 1)

RddCount(rdd) == SeqSum([i \in 1..Len(rdd) |-> rdd[i].n])

\* rdd.take(k): the first k elements
RECURSIVE RddTake(_, _)
RddTake(rdd, k) ==
    IF rdd = <<>> \/ k = 0 THEN <<>>
    ELSE IF Head(rdd).n <= k THEN <<Head(rdd)>> \o RddTake(Tail(rdd), k - Head(rdd).n)
    ELSE <<Run(Head(rdd).x, k)>>

ValidBatchLines ==
    { <<"{", "a", ":", "1", "}">>,
      <<" ", "{", "a", ":", "1", ",", "a", ":", "2", "}">> }
BadBatchLines == { <<"{", "a", ":", "1">> }
BlankBatchLines == { <<" ">> }

Batches ==
    UNION { [1..n -> {Run(l, c) : l \in ValidBatchLines \cup BadBatchLines \cup BlankBatchLines,
                                  c \in {1, MaxRun}}]
            : n \in 0..MaxLines }

\* ------------------------------------------------------------------ read_json (lines 246-280)
\* spark.createDataFrame(data): inferring a schema from no records raises
\* ValueError; otherwise inference succeeds or raises as the records' types
\* allow (inferOk), and the frame has one row per record given.
createDataFrame(data, inferOk) ==
    IF data = <<>> \/ ~inferOk THEN [ok |-> FALSE, rows |-> <<>>]
    ELSE [ok |-> TRUE, rows |-> data]

\* rdd.map(lambda ln: ln.strip()).filter(lambda ln: ln != "")   (line 258)
NonBlank(file) ==
    LET stripped == [i \in 1..Len(file) |-> Run(Strip(file[i].x), file[i].n)]
    IN  RddKeep(stripped, {i \in 1..Len(file) : stripped[i].x # <<>>}, 1)

\* .map(lambda ln: (ln, parse_json_line_safe(ln)))   (line 258)
ParsedPairs(rdd) ==
    [i \in 1..Len(rdd) |-> Run(<<rdd[i].x, parse_json_line_safe(rdd[i].x)>>, rdd[i].n)]

\* parsed.filter(lambda t: t[1] is not None)   (line 260)
ParsedOk(rdd) == RddKeep(rdd, {i \in 1..Len(rdd) : rdd[i].x[2] # NoneV}, 1)

\* parsed.filter(lambda t: t[1] is None)   (line 261)
ParsedBad(rdd) == RddKeep(rdd, {i \in 1..Len(rdd) : rdd[i].x[2] = NoneV}, 1)

\* parsed_ok.map(lambda t: t[1])   (line 270)
DictRdd(rdd) == [i \in 1..Len(rdd) |-> Run(rdd[i].x[2], rdd[i].n)]

\* lines 266-280, given the counts and dict_rdd
BuildFrame(counts, dict_rdd, directOk, sampleOk) ==
    IF counts.ok_count = 0
    THEN LET empty == createDataFrame(<<>>, TRUE)
         IN  [counts |-> counts, path |-> "empty", raised |-> ~empty.ok, rows |-> empty.rows]
    ELSE IF directOk
    THEN LET direct == createDataFrame(dict_rdd, directOk)
         IN  [counts |-> counts, path |-> "direct", raised |-> ~direct.ok, rows |-> direct.rows]
    ELSE LET sample == RddTake(dict_rdd, SampleCap)
             fallback == IF sample = <<>> THEN createDataFrame(<<>>, TRUE)
                         ELSE createDataFrame(sample, sampleOk)
         IN  [counts |-> counts, path |-> "sample", raised |-> ~fallback.ok,
              rows |-> fallback.rows]

ReadCounts(parsedRdd) ==
    [total |-> RddCount(parsedRdd), ok_count |-> RddCount(ParsedOk(parsedRdd)),
     bad_count |-> RddCount(ParsedBad(parsedRdd))]

read_json(file, directOk, sampleOk) ==
    LET parsedRdd == ParsedPairs(NonBlank(file))
    IN  BuildFrame(ReadCounts(parsedRdd), DictRdd(ParsedOk(parsedRdd)), directOk, sampleOk)

\* ------------------------------------------------------------------ process_one (lines 321-340)
\* write_s3_marker (lines 118-125): a failed put_object is logged and swallowed
write_s3_marker(present, name, putOk) == IF putOk THEN present \cup {name} ELSE present

InitRead ==
    /\ batch \in Batches
    /\ rpc = "start" /\ total = 0 /\ ok_count = 0 /\ bad_count = 0
    /\ rdf = <<>> /\ rpath = "none" /\ rraised = "none" /\ markers = {} /\ result = "none"
    /\ put_failed = {}
    /\ FlatIdle /\ ParseIdle /\ NameIdle /\ WriteIdle /\ MainIdle

\* df = read_json(input_path)   (line 324). An input that cannot be read makes
\* the first count() raise, before anything is counted.
ReadJson ==
    /\ rpc = "start"
    /\ \E readable, directOk, sampleOk \in BOOLEAN :
          LET r == read_json(batch, directOk, sampleOk)
          IN  IF readable
              THEN /\ total' = r.counts.total
                   /\ ok_count' = r.counts.ok_count
                   /\ bad_count' = r.counts.bad_count
                   /\ rpath' = r.path
                   /\ rdf' = r.rows
                   /\ rraised' = IF r.raised THEN "read" ELSE "none"
                   /\ rpc' = IF r.raised THEN "failed" ELSE "read"
              ELSE /\ rpath' = "unreadable" /\ rraised' = "read" /\ rpc' = "failed"
                   /\ UNCHANGED <<total, ok_count, bad_count, rdf>>
    /\ UNCHANGED <<batch, markers, result, put_failed>> /\ UNCHANGED <<flatVars, parseVars, nameVars, writeVars, mainVars>>

\* a plausible slip of lines 330-334: the _SUCCESS marker is put before write_df runs
FlattenWrite_MarkerFirst ==
    /\ rpc = "read"
    /\ \E outcome \in {"none", "flatten", "write"} :
          /\ rraised' = outcome
          /\ rpc' = IF outcome = "none" THEN "written" ELSE "failed"
    /\ markers' = write_s3_marker(markers, "_SUCCESS", TRUE)
    /\ UNCHANGED <<batch, total, ok_count, bad_count, rdf, rpath, result, put_failed>>
    /\ UNCHANGED <<flatVars, parseVars, nameVars, writeVars, mainVars>>

\* flatten_df(df) and write_df(flattened, out_uri) (lines 326-331); either may raise
FlattenWrite ==
    /\ rpc = "read"
    /\ \E outcome \in {"none", "flatten", "write"} :
          /\ rraised' = outcome
          /\ rpc' = IF outcome = "none" THEN "written" ELSE "failed"
    /\ UNCHANGED <<batch, total, ok_count, bad_count, rdf, rpath, markers, result, put_failed>>
    /\ UNCHANGED <<flatVars, parseVars, nameVars, writeVars, mainVars>>

\* lines 334-335
MarkSuccess ==
    /\ rpc = "written"
    /\ \E putOk \in BOOLEAN :
          /\ markers' = write_s3_marker(markers, "_SUCCESS", putOk)
          /\ put_failed' = IF putOk THEN put_failed ELSE put_failed \cup {"_SUCCESS"}
    /\ result' = "true" /\ rpc' = "done"
    /\ UNCHANGED <<batch, total, ok_count, bad_count, rdf, rpath, rraised>>
    /\ UNCHANGED <<flatVars, parseVars, nameVars, writeVars, mainVars>>

\* the except branch, lines 336-340
MarkFailed ==
    /\ rpc = "failed"
    /\ \E putOk \in BOOLEAN :
          /\ markers' = write_s3_marker(markers, "_FAILED", putOk)
          /\ put_failed' = IF putOk THEN put_failed ELSE put_failed \cup {"_FAILED"}
    /\ result' = "false" /\ rpc' = "done"
    /\ UNCHANGED <<batch, total, ok_count, bad_count, rdf, rpath, rraised>>
    /\ UNCHANGED <<flatVars, parseVars, nameVars, writeVars, mainVars>>

NextRead == ReadJson \/ FlattenWrite \/ MarkSuccess \/ MarkFailed

SpecRead == InitRead /\ [][NextRead]_vars

\* ------------------------------------------------------------------ C8
LinesIn(b, lines) == RddCount(RddKeep(b, {i \in 1..Len(b) : b[i].x \in lines}, 1))

ValidN == LinesIn(batch, ValidBatchLines)
BadM == LinesIn(batch, BadBatchLines)

\* the records of the valid lines, in file order
ValidRecords ==
    LET valid == RddKeep(batch, {i \in 1..Len(batch) : batch[i].x \in ValidBatchLines}, 1)
    IN  [i \in 1..Len(valid) |-> Run(parse_json_line_safe(valid[i].x), valid[i].n)]

\* read_json has run on a readable file / has returned a frame
ReadRan == rpc # "start" /\ rpath # "unreadable"
ReadReturned == rpc # "start" /\ rraised # "read"

\* C8: with N valid and M unparsable non-blank lines read_json counts total = N + M,
\* ok = N, failed = M (blank lines in none of them), does not raise when lines
\* fail to parse, and builds the frame from exactly the N parsed records.
C8_BadLinesCountedNotRaised ==
    ReadRan =>
        /\ total = ValidN + BadM /\ ok_count = ValidN /\ bad_count = BadM
        /\ (BadM >= 1 /\ ValidN = 0) => rraised # "read"
        /\ ReadReturned => (rdf = ValidRecords /\ RddCount(rdf) = ValidN)

\* the counting part on its own
C8_CountsOnly ==
    ReadRan => (total = ValidN + BadM /\ ok_count = ValidN /\ bad_count = BadM)

\* ------------------------------------------------------------------ C9
\* C9: on every path through read_json, the fallback included, the returned frame
\* has exactly one row per successfully parsed record.
C9_OneRowPerRecord ==
    ReadReturned => (RddCount(rdf) = ok_count /\ rdf = ValidRecords)

\* ------------------------------------------------------------------ C10
\* C10: when no line parses, read_json returns an empty frame without raising and
\* the dataset is not reported failed because of it.
C10_ZeroSuccessesEmptyFrame ==
    (ReadRan /\ ValidN = 0) =>
        /\ rraised # "read"
        /\ rdf = <<>>
        /\ result = "false" => rraised \in {"flatten", "write"}

\* ------------------------------------------------------------------ job parameters (lines 75-86)
MaxCoalesce == 2

Str(t) == [k |-> "str", v |-> t]

UpperCase == <<"A", "E", "F", "L", "N", "O", "S", "U">>
LowerCase == <<"a", "e", "f", "l", "n", "o", "s", "u">>

\* str.lower()
Lower(c) ==
    [i \in 1..Len(c) |->
        IF \E k \in 1..Len(UpperCase) : UpperCase[k] = c[i]
        THEN LowerCase[CHOOSE k \in 1..Len(UpperCase) : UpperCase[k] = c[i]]
        ELSE c[i]]

\* str.split(',')
RECURSIVE SplitCommas(_)
SplitCommas(c) ==
    IF \A j \in 1..Len(c) : c[j] # "," THEN <<c>>
    ELSE LET i == CHOOSE j \in 1..Len(c) : c[j] = "," /\ \A k \in 1..(j-1) : c[k] # ","
         IN  <<SubSeq(c, 1, i-1)>> \o SplitCommas(SubSeq(c, i+1, Len(c)))

\* [c.strip() for c in PARTITION_BY.split(',') if c.strip()]   (line 291)
RECURSIVE StripNonEmpty(_)
StripNonEmpty(ps) ==
    IF ps = <<>> THEN <<>>
    ELSE (IF Strip(Head(ps)) # <<>> THEN <<Strip(Head(ps))>> ELSE <<>>) \o StripNonEmpty(Tail(ps))

\* lines 83-86
DefaultCompression(format, given) ==
    IF format = "parquet" /\ given = "" THEN "snappy"
    ELSE IF format = "csv" /\ given = "" THEN "none"
    ELSE given

\* ------------------------------------------------------------------ write_df (lines 283-318)
na == <<"a">>
nb == <<"b">>
nc == <<"c">>

\* values of --partition_by, each with the column list it asks for
PartitionArgs ==
    { [text |-> NoneV, asks |-> <<>>],
      [text |-> Str(<<>>), asks |-> <<>>],
      [text |-> Str(<<"n", "o", "n", "e">>), asks |-> <<>>],
      [text |-> Str(<<"N", "o", "n", "e">>), asks |-> <<>>],
      [text |-> Str(<<"n", "u", "l", "l">>), asks |-> <<>>],
      [text |-> Str(<<"F", "A", "L", "S", "E">>), asks |-> <<>>],
      [text |-> Str(<<",", " ">>), asks |-> <<>>],
      [text |-> Str(<<"a">>), asks |-> <<na>>],
      [text |-> Str(<<"b", ",", "a">>), asks |-> <<nb, na>>],
      [text |-> Str(<<" ", "a", " ", ",", ",", "b", " ">>), asks |-> <<na, nb>>],
      [text |-> Str(<<"z">>), asks |-> <<<<"z">>>>],
      [text |-> Str(<<"a", ",", "b", ",", "c">>), asks |-> <<na, nb, nc>>] }

Formats == {"parquet", "csv", "json", "orc"}
Codecs == {"", "none", "snappy", "gzip"}

\* the guard of line 290 and the list of line 291; <<>> when nothing is to be partitioned
PartitionColumns(partition_by) ==
    IF partition_by = NoneV \/ partition_by.v = <<>> THEN <<>>
    ELSE IF Lower(partition_by.v) \in { <<"n", "o", "n", "e">>, <<"n", "u", "l", "l">>,
                                        <<"f", "a", "l", "s", "e">>, <<>> } THEN <<>>
    ELSE StripNonEmpty(SplitCommas(partition_by.v))

\* DataFrameWriter.partitionBy(...).parquet(...) rejects a column the frame does
\* not have, and a partitioning by all the columns of the frame
PartitionRejected(cols, parts) ==
    parts # <<>> /\ (Range(parts) \ Range(cols) # {} \/ Range(cols) \subseteq Range(parts))

Written(format, parts, shards, codec, header) ==
    [k |-> "files", v |-> [format |-> format, partitionBy |-> parts, shards |-> shards,
                           codec |-> codec, header |-> header]]

\* the parquet branch, lines 287-299; nullOptionOk: the writer accepts
\* option('compression', None)
write_parquet(cols, partition_by, coalesce, compression, nullOptionOk) ==
    LET parts == PartitionColumns(partition_by)
        codec == IF compression # "" /\ compression # "none" THEN compression ELSE "default"
    IN  IF coalesce > 0
        THEN IF compression = "none" /\ ~nullOptionOk THEN NoneV
             ELSE Written("parquet", <<>>, coalesce,
                          IF compression # "none" /\ compression # "" THEN compression
                          ELSE "default", FALSE)
        ELSE IF PartitionRejected(cols, parts) THEN NoneV
             ELSE Written("parquet", parts, 0, codec, FALSE)

\* NoneV: write_df raised
write_df(cols, format, partition_by, coalesce, compression, nullOptionOk) ==
    IF format = "parquet"
    THEN write_parquet(cols, partition_by, coalesce, compression, nullOptionOk)
    ELSE IF format = "csv"
    THEN Written("csv", <<>>, IF coalesce > 0 THEN coalesce ELSE 0, "default", TRUE)
    ELSE IF format = "json"
    THEN Written("json", <<>>, IF coalesce > 0 THEN coalesce ELSE 0, "default", FALSE)
    ELSE NoneV

InitWrite ==
    /\ OUTPUT_FORMAT \in Formats
    /\ PARTITION_BY \in {a.text : a \in PartitionArgs}
    /\ COALESCE \in 0..MaxCoalesce
    /\ COMPRESSION \in {DefaultCompression(OUTPUT_FORMAT, g) : g \in Codecs}
    /\ wcols = <<na, nb, nc>> /\ wpc = "start" /\ written = NoneV
    /\ FlatIdle /\ ReadIdle /\ ParseIdle /\ NameIdle /\ MainIdle

WriteDf ==
    /\ wpc = "start"
    /\ \E nullOptionOk \in BOOLEAN :
          written' = write_df(wcols, OUTPUT_FORMAT, PARTITION_BY, COALESCE, COMPRESSION,
                              nullOptionOk)
    /\ wpc' = IF written' = NoneV THEN "raised" ELSE "written"
    /\ UNCHANGED <<OUTPUT_FORMAT, PARTITION_BY, COALESCE, COMPRESSION, wcols>>
    /\ UNCHANGED <<flatVars, readVars, parseVars, nameVars, mainVars>>

NextWrite == WriteDf

SpecWrite == InitWrite /\ [][NextWrite]_vars

\* ------------------------------------------------------------------ C13
\* the column list the --partition_by value asks for
Asked == (CHOOSE a \in PartitionArgs : a.text = PARTITION_BY).asks

\* C13: with parquet output and a non-empty list of partition columns, write_df
\* writes the output partitioned by exactly those columns, for coalesce = 0 and
\* for coalesce > 0 alike.
C13_PartitionedForEveryCoalesce ==
    (wpc = "written" /\ OUTPUT_FORMAT = "parquet" /\ Asked # <<>>
       /\ Range(Asked) \subseteq Range(wcols) /\ Range(Asked) # Range(wcols))
        => written.v.partitionBy = Asked

\* the same without coalescing
C13_PartitionedWhenNotCoalesced ==
    (wpc # "start" /\ OUTPUT_FORMAT = "parquet" /\ COALESCE = 0 /\ Asked # <<>>
       /\ Range(Asked) \subseteq Range(wcols) /\ Range(Asked) # Range(wcols))
        => (wpc = "written" /\ written.v.partitionBy = Asked)

\* what PartitionColumns reads from the text is the list asked for
C13_ListIsRead ==
    PartitionColumns(PARTITION_BY) = Asked

\* ------------------------------------------------------------------ main (lines 343-382)
\* the input files of a run of main
MainBatches ==
    { <<>> } \cup { <<Run(l, 1)>> : l \in ValidBatchLines \cup BadBatchLines \cup BlankBatchLines }

\* a plausible slip of line 376: the flag is not consulted
ShouldExit_Always(r_ok, m_ok, fail_on_error) == ~(r_ok = "true" /\ m_ok = "true")

\* the else branch of line 366 together with `if FAIL_ON_ERROR` (line 376)
ShouldExit(r_ok, m_ok, fail_on_error) == ~(r_ok = "true" /\ m_ok = "true") /\ fail_on_error

\* what process_one left behind for a dataset (history)
Outcome(label) ==
    [label |-> label, raised |-> rraised, markers |-> markers, result |-> result,
     put_failed |-> put_failed]

InitMain ==
    /\ FAIL_ON_ERROR \in BOOLEAN
    /\ mpc = "start" /\ review_ok = "none" /\ meta_ok = "none"
    /\ attempted = <<>> /\ outcomes = <<>> /\ job_markers = {}
    /\ ReadIdle /\ FlatIdle /\ ParseIdle /\ NameIdle /\ WriteIdle

\* lines 344-361: the job-started marker, then process_one is entered for the reviews
StartReview ==
    /\ mpc = "start"
    /\ \E putOk \in BOOLEAN : job_markers' = write_s3_marker(job_markers, "_JOB_STARTED", putOk)
    /\ batch' \in MainBatches /\ rpc' = "start"
    /\ attempted' = Append(attempted, "review_dataset")
    /\ mpc' = "review"
    /\ UNCHANGED <<total, ok_count, bad_count, rdf, rpath, rraised, markers, result, put_failed>>
    /\ UNCHANGED <<FAIL_ON_ERROR, review_ok, meta_ok, outcomes>>
    /\ UNCHANGED <<flatVars, parseVars, nameVars, writeVars>>

\* process_one returns to line 361; line 362 enters process_one for the metadata
\* (its own input file, its own output prefix)
StartMeta ==
    /\ mpc = "review" /\ rpc = "done"
    /\ review_ok' = result
    /\ outcomes' = Append(outcomes, Outcome("review_dataset"))
    /\ batch' \in MainBatches /\ rpc' = "start"
    /\ total' = 0 /\ ok_count' = 0 /\ bad_count' = 0 /\ rdf' = <<>> /\ rpath' = "none"
    /\ rraised' = "none" /\ markers' = {} /\ result' = "none" /\ put_failed' = {}
    /\ attempted' = Append(attempted, "meta_dataset")
    /\ mpc' = "meta"
    /\ UNCHANGED <<FAIL_ON_ERROR, meta_ok, job_markers>>
    /\ UNCHANGED <<flatVars, parseVars, nameVars, writeVars>>

\* process_one returns to line 362; lines 364-382
Summary ==
    /\ mpc = "meta" /\ rpc = "done"
    /\ meta_ok' = result
    /\ outcomes' = Append(outcomes, Outcome("meta_dataset"))
    /\ IF review_ok = "true" /\ result = "true"
       THEN /\ \E put1, put2 \in BOOLEAN :
                  job_markers' = write_s3_marker(
                                     write_s3_marker(job_markers, "_JOB_FINISHED review", put1),
                                     "_JOB_FINISHED meta", put2)
            /\ mpc' = "ended"
       ELSE /\ \E putOk \in BOOLEAN :
                  job_markers' = write_s3_marker(job_markers, "_JOB_FAILED", putOk)
            /\ mpc' = IF ShouldExit(review_ok, result, FAIL_ON_ERROR) THEN "exit" ELSE "ended"
    /\ UNCHANGED <<FAIL_ON_ERROR, review_ok, attempted>>
    /\ UNCHANGED <<readVars, flatVars, parseVars, nameVars, writeVars>>

NextMain ==
    \/ StartReview \/ StartMeta \/ Summary
    \/ ReadJson \/ FlattenWrite \/ MarkSuccess \/ MarkFailed

SpecMain == InitMain /\ [][NextMain]_vars

\* ------------------------------------------------------------------ C11
\* a dataset whose read, flatten or write raised
SomeDatasetFailed == \E i \in 1..Len(outcomes) : outcomes[i].raised # "none"

MainOver == mpc \in {"ended", "exit"}

\* C11: main attempts both datasets whether or not the first failed; SystemExit
\* is raised only after both were attempted, only if one failed and only with
\* fail_on_error true (and then it is raised); with fail_on_error false the job
\* ends normally.
C11_ExitOnlyAfterBothAttempted ==
    /\ MainOver => (attempted = <<"review_dataset", "meta_dataset">> /\ Len(outcomes) = 2)
    /\ mpc = "exit" => (SomeDatasetFailed /\ FAIL_ON_ERROR)
    /\ (MainOver /\ SomeDatasetFailed /\ FAIL_ON_ERROR) => mpc = "exit"
    /\ (MainOver /\ ~FAIL_ON_ERROR) => mpc = "ended"
    /\ (mpc = "meta" /\ outcomes[1].raised # "none") => attempted[2] = "meta_dataset"

\* the reviews failed, the metadata was processed all the same, the job ended
\* normally because fail_on_error is false
C11_Witness ==
    /\ mpc = "ended" /\ ~FAIL_ON_ERROR
    /\ outcomes[1].raised # "none" /\ outcomes[2].raised = "none"
    /\ outcomes[2].result = "true"

C11_WitnessExit ==
    mpc = "exit" /\ outcomes[1].raised # "none" /\ outcomes[2].result = "true"

\* ------------------------------------------------------------------ C17
\* the claim for one dataset, from what process_one did for it
MarkersAsClaimed(o, over) ==
    /\ "_SUCCESS" \in o.markers => (o.raised = "none" /\ over)
    /\ (over /\ o.raised # "none") =>
          ("_FAILED" \in o.markers /\ o.result = "false" /\ "_SUCCESS" \notin o.markers)
    /\ ~({"_SUCCESS", "_FAILED"} \subseteq o.markers)

\* the same, a marker counting as put when put_object was called for it
MarkersAsPut(o, over) ==
    /\ "_SUCCESS" \in o.markers \cup o.put_failed => (o.raised = "none" /\ over)
    /\ (over /\ o.raised # "none") =>
          /\ "_FAILED" \in o.markers \cup o.put_failed
          /\ o.result = "false"
    /\ (over /\ o.raised = "none") => o.result = "true"
    /\ ~({"_SUCCESS", "_FAILED"} \subseteq o.markers \cup o.put_failed)

\* C17 (as claimed): _SUCCESS is written only after write_df succeeded; a dataset
\* whose read, flatten or write raised gets _FAILED, is reported False and gets no
\* _SUCCESS; no dataset gets both markers.
C17_FailedDatasetGetsMarker ==
    /\ MarkersAsClaimed(Outcome("current"), rpc = "done")
    /\ \A i \in 1..Len(outcomes) : MarkersAsClaimed(outcomes[i], TRUE)

\* C17 (amended): the same, the _FAILED marker being present unless its own
\* put_object failed.
C17_MarkersFollowOutcome ==
    /\ MarkersAsPut(Outcome("current"), rpc = "done")
    /\ \A i \in 1..Len(outcomes) : MarkersAsPut(outcomes[i], TRUE)

\* the reviews got _SUCCESS, the metadata write raised and got _FAILED
C17_Witness ==
    /\ mpc = "meta" /\ rpc = "done" /\ rraised = "write" /\ markers = {"_FAILED"}
    /\ result = "false"
    /\ outcomes[1].markers = {"_SUCCESS"} /\ outcomes[1].result = "true"

====
